---- MODULE Spec2Model ----
(***************************************************************************)
(* Routing and orchestration engine of the safety-monitoring multi-agent   *)
(* system: the Skills based supervisor (agents/supervisor_v2.py) over the  *)
(* skill registry (skills/skill_manager.py), and the agent based           *)
(* supervisor (agents/supervisor_agent.py) behind the HTTP handler         *)
(* (app.py).                                                               *)
(*                                                                         *)
(* Texts.  A request text is modelled by the set of keywords that occur in *)
(* it (Python's `kw in user_input`); no keyword of the routing tables is a *)
(* substring of another one, so occurrence of one keyword is independent   *)
(* of the others.  A text produced by the engine is a record whose "kind"  *)
(* names the f-string or conversion that produced it.                      *)
(*                                                                         *)
(* Python mappings (dict) are TLA+ functions from key strings to values;   *)
(* `k in d` is k \in DOMAIN d.  None is the string NONE.                    *)
(***************************************************************************)
EXTENDS Integers, Sequences, FiniteSets, TLC

(* Keywords are written in Revised Romanization; the source spells them:   *)
(*   tonggye     = 통계 *)
(*   bunseok     = 분석 *)
(*   chuse       = 추세 *)
(*   wiheomdo    = 위험도 *)
(*   bigyo       = 비교 *)
(*   gyesan      = 계산 *)
(*   jeunggam    = 증감 *)
(*   byeonhwa    = 변화 *)
(*   pyeongga    = 평가 *)
(*   manheun     = 많은 *)
(*   jeogeun     = 적은 *)
(*   nopeun      = 높은 *)
(*   najeun      = 낮은 *)
(*   bogoseo     = 보고서 *)
(*   jochi       = 조치 *)
(*   bangan      = 방안 *)
(*   daeeung     = 대응 *)
(*   jakseong    = 작성 *)
(*   saengseong  = 생성 *)
(*   gaideu      = 가이드 *)
(*   gyehoek     = 계획 *)
(*   yoyak       = 요약 *)
(*   jeongni     = 정리 *)
(*   geomsaek    = 검색 *)
(*   chaja       = 찾아 *)
(*   allyeo      = 알려 *)
(*   beopgyu     = 법규 *)
(*   gyujeong    = 규정 *)
(*   eotteoke    = 어떻게 *)
(*   mueot       = 무엇 *)
(*   wae         = 왜 *)
(*   seolmyeong  = 설명 *)
(*   annae       = 안내 *)
(*   gyoyuk      = 교육 *)
(*   imiji       = 이미지 *)
(*   sajin       = 사진 *)
(*   yeongsang   = 영상 *)
(*   chagyong    = 착용 *)
(*   gamji       = 감지 *)
(*   hwagin      = 확인 *)
(*   iril        = 일일 *)
(*   jugan       = 주간 *)
(*   sago        = 사고 *)
(* The event keywords of _extract_event_type are romanized the same way.   *)

\* ------------------------------------------------------------------ bounds
\* keywords occurring in one request text
MaxKeywords == 2
\* steps of a plan returned by the generation call
MaxSteps == 3
\* skills whose construction failed at start-up
MaxLoadFailures == 1
\* calls of reload_skill made on one SkillManager
MaxReloads == 2

NONE == "None"

\* ------------------------------------------------- skills and their tables
SkillDirs == {"data_analytics", "report_generation",
              "knowledge_management", "vision_analysis"}

\* keywords_map of quick_route, keys in declaration (dict) order
keywords_order ==
  <<"data_analytics", "report_generation", "knowledge_management", "vision_analysis">>

keywords_map ==
  [data_analytics |->
     <<"tonggye", "bunseok", "chuse", "wiheomdo", "bigyo", "gyesan",
       "jeunggam", "byeonhwa", "pyeongga", "manheun", "jeogeun", "nopeun", "najeun">>,
   report_generation |->
     <<"bogoseo", "jochi", "bangan", "daeeung", "jakseong", "saengseong",
       "gaideu", "gyehoek", "yoyak", "jeongni">>,
   knowledge_management |->
     <<"geomsaek", "chaja", "allyeo", "beopgyu", "gyujeong", "eotteoke",
       "mueot", "wae", "seolmyeong", "annae", "gyoyuk">>,
   vision_analysis |->
     <<"imiji", "sajin", "yeongsang", "bunseok", "PPE", "chagyong",
       "gamji", "hwagin", "bigyo">>]

\* task_mapping of _determine_task: per skill the (keyword, task) pairs in
\* declaration order
task_mapping ==
  [data_analytics |->
     << <<"tonggye", "calculate_statistics">>,
        <<"chuse", "analyze_trend">>,
        <<"wiheomdo", "assess_risk">>,
        <<"bigyo", "compare_periods">>,
        <<"manheun", "find_top_cameras">> >>,
   report_generation |->
     << <<"jochi", "generate_action_plan">>,
        <<"daeeung", "generate_action_plan">>,
        <<"bangan", "generate_action_plan">>,
        <<"eotteoke", "generate_action_plan">>,
        <<"iril", "generate_daily_report">>,
        <<"jugan", "generate_weekly_report">>,
        <<"sago", "generate_incident_report">>,
        <<"yoyak", "generate_summary">>,
        <<"bogoseo", "generate_event_report">> >>,
   knowledge_management |->
     << <<"geomsaek", "search_knowledge">>,
        <<"beopgyu", "search_regulations">>,
        <<"gyujeong", "search_regulations">>,
        <<"chaja", "search_knowledge">>,
        <<"allyeo", "answer_question">> >>,
   vision_analysis |->
     << <<"bunseok", "analyze_image">>,
        <<"PPE", "detect_ppe">>,
        <<"chagyong", "detect_ppe">>,
        <<"bigyo", "compare_images">> >>]

default_tasks ==
  [data_analytics |-> "calculate_statistics",
   report_generation |-> "generate_action_plan",
   knowledge_management |-> "search_knowledge",
   vision_analysis |-> "analyze_image"]

Range(s) == {s[i] : i \in DOMAIN s}

\* event_keywords of _extract_event_type, in declaration order
event_keywords ==
  << <<"NO_HELMET", {"helmet", "anjeonmo", "moja"}>>,
     <<"NO_SAFETY_VEST", {"jokki", "anjeonjokki", "hyeonggwangjokki"}>>,
     <<"FALL_DETECTED", {"naksang", "neomeojim", "tteoreojim", "churak"}>>,
     <<"FIRE_HAZARD", {"hwajae", "bul", "yeongi"}>>,
     <<"RESTRICTED_AREA", {"jehanguyeok", "churipgeumji", "tongjeguyeok"}>>,
     <<"EQUIPMENT_MISUSE", {"jangbi", "dogu", "gigye"}>> >>

\* the words a request text of the model is made of: keywords of the two
\* routing tables, some of each skill, some in two tables ("bunseok",
\* "bigyo", "eotteoke"), some in the task table only ("iril", "sago")
Vocabulary ==
  {"tonggye", "wiheomdo", "bigyo", "bunseok",
   "bogoseo", "jochi", "iril", "sago",
   "geomsaek", "allyeo", "eotteoke",
   "imiji"}

\* the keywords that are substrings of a longer word of the vocabularies
substring_of == {<<"jokki", "anjeonjokki">>, <<"jokki", "hyeonggwangjokki">>}

\* `kw in user_input`
Contains(kw, user_input) ==
  \E w \in user_input : kw = w \/ <<kw, w>> \in substring_of

\* ------------------------------------------------------------ quick_route
\* first skill of keywords_map, in dict order, one of whose keywords occurs
\* quick_route_from with the last matching entry of the table winning
quick_route_from_last(i, user_input) ==
  LET hits == {k \in i..Len(keywords_order) :
                 \E kw \in Range(keywords_map[keywords_order[k]]) : Contains(kw, user_input)}
  IN IF hits = {} THEN NONE
     ELSE keywords_order[CHOOSE k \in hits : \A j \in hits : j <= k]

RECURSIVE quick_route_from(_, _)
quick_route_from(i, user_input) ==
  IF i > Len(keywords_order) THEN NONE
  ELSE IF \E kw \in Range(keywords_map[keywords_order[i]]) : Contains(kw, user_input)
       THEN keywords_order[i]
       ELSE quick_route_from(i + 1, user_input)

\* quick_route with the scan starting after the first entry of the table
quick_route_skipping_first(user_input) == quick_route_from(2, user_input)

quick_route(user_input) == quick_route_from(1, user_input)

\* -------------------------------------------------------- _determine_task
\* first_task with the last matching keyword winning
first_task_last_wins(pairs, i, user_input) ==
  LET hits == {k \in i..Len(pairs) : Contains(pairs[k][1], user_input)}
  IN IF hits = {} THEN NONE
     ELSE pairs[CHOOSE k \in hits : \A j \in hits : j <= k][2]

RECURSIVE first_task(_, _, _)
first_task(pairs, i, user_input) ==
  IF i > Len(pairs) THEN NONE
  ELSE IF Contains(pairs[i][1], user_input) THEN pairs[i][2]
       ELSE first_task(pairs, i + 1, user_input)

_determine_task(user_input, skill_name) ==
  LET hit == IF skill_name \in DOMAIN task_mapping
             THEN first_task(task_mapping[skill_name], 1, user_input)
             ELSE NONE
  IN IF hit # NONE THEN hit
     ELSE IF skill_name \in DOMAIN default_tasks
          THEN default_tasks[skill_name]
          ELSE "execute"

\* ---------------------------------------------------- _extract_event_type
RECURSIVE event_type_from(_, _)
event_type_from(i, user_input) ==
  IF i > Len(event_keywords) THEN "UNKNOWN"
  ELSE IF \E kw \in event_keywords[i][2] : Contains(kw, user_input)
       THEN event_keywords[i][1]
       ELSE event_type_from(i + 1, user_input)

_extract_event_type(user_input) == event_type_from(1, user_input)

\* ------------------------------------------------------------------ texts
\* "" (the initial context of a multi-step run)
EMPTY == [kind |-> "empty"]

\* a request or task text made of words, followed (multi-step) by
\* "\n\n이전 단계 결과:\n" and the previous step's result
Description(words, previous) == [kind |-> "description", words |-> words, previous |-> previous]

\* f"{skill_name} Skill 실행 중 오류: {str(e)}"
skill_error_text(skill_name, e) == [kind |-> "skill_error", skill |-> skill_name, error |-> e]

\* f"요청 처리 중 오류가 발생했습니다: {str(e)}"
request_error_text(e) == [kind |-> "request_error", error |-> e]

\* "결과가 없습니다."
NO_RESULT == [kind |-> "no_result"]

\* json.dumps(result, ensure_ascii=False, indent=2)
json_dumps(obj) == [kind |-> "json", obj |-> obj]

\* the text a skill put in a field of its result
SkillText(field) == [kind |-> "skill_text", field |-> field]

\* None, where a text was expected
NoneValue == [kind |-> "none"]

\* Python truthiness of a text (a str) or None: only "" and None are falsy
TruthyText(t) == t.kind \notin {"empty", "none"}

\* ------------------------------------------------------------- exceptions
SkillNotFound(skill_name) ==
  [type |-> "ValueError", what |-> "Skill not found", skill |-> skill_name, task |-> NONE]

InvalidInput(skill_name, task) ==
  [type |-> "ValueError", what |-> "Invalid input for skill", skill |-> skill_name, task |-> task]

UnknownTask(skill_name, task) ==
  [type |-> "ValueError", what |-> "Unknown task", skill |-> skill_name, task |-> task]

SkillFault(skill_name, task) ==
  [type |-> "Exception", what |-> "raised by the task", skill |-> skill_name, task |-> task]

Returned(v) == [raised |-> FALSE, val |-> v]
Raised(e) == [raised |-> TRUE, exc |-> e]

\* ----------------------------------------------------------------- skills
\* the tasks the if/elif chain of each skill's execute dispatches
skill_tasks ==
  [data_analytics |->
     {"calculate_statistics", "analyze_trend", "assess_risk",
      "find_top_cameras", "analyze_query"},
   report_generation |->
     {"generate_event_report", "generate_statistics_report", "generate_action_plan",
      "generate_summary", "generate_incident_report", "generate_daily_report",
      "generate_weekly_report"},
   knowledge_management |->
     {"search_knowledge", "get_action_guide", "search_regulations",
      "search_by_event_type", "answer_question", "rebuild_vectorstore"},
   vision_analysis |->
     {"detect_ppe", "assess_safety", "compare_images", "analyze_multiple",
      "analyze_with_context"}]

Has(context, keys) == keys \subseteq DOMAIN context

DataAnalytics_validate_input(task, context) ==
  CASE task \in {"calculate_statistics", "find_top_cameras"} ->
         Has(context, {"start_date", "end_date"})
    [] task = "analyze_trend" ->
         Has(context, {"current_start", "current_end", "previous_start", "previous_end"})
    [] task = "assess_risk" -> TRUE
    [] task = "analyze_query" -> Has(context, {"query"})
    [] OTHER -> FALSE

ReportGeneration_validate_input(task, context) ==
  CASE task = "generate_event_report" -> Has(context, {"events"})
    [] task = "generate_statistics_report" -> Has(context, {"statistics"})
    [] task = "generate_action_plan" -> Has(context, {"event_data"})
    [] task = "generate_summary" -> Has(context, {"content"})
    [] task = "generate_incident_report" -> Has(context, {"incident_data"})
    [] task \in {"generate_daily_report", "generate_weekly_report"} -> TRUE
    [] OTHER -> FALSE

KnowledgeManagement_validate_input(task, context) ==
  CASE task = "search_knowledge" -> Has(context, {"query"})
    [] task \in {"get_action_guide", "search_by_event_type"} -> Has(context, {"event_type"})
    [] task = "search_regulations" -> Has(context, {"query"})
    [] task = "answer_question" -> Has(context, {"question"})
    [] task = "rebuild_vectorstore" -> TRUE
    [] OTHER -> FALSE

\* context['images'] is a list whenever the engine sets it
VisionAnalysis_validate_input(task, context) ==
  CASE task \in {"detect_ppe", "assess_safety", "analyze_with_context"} ->
         Has(context, {"image"})
    [] task = "compare_images" -> Has(context, {"before_image", "after_image"})
    [] task = "analyze_multiple" -> Has(context, {"images"})
    [] OTHER -> FALSE

\* skill.validate_input(task, context) of the instance registered as skill_name
validate_input(skill_name, task, context) ==
  CASE skill_name = "data_analytics" -> DataAnalytics_validate_input(task, context)
    [] skill_name = "report_generation" -> ReportGeneration_validate_input(task, context)
    [] skill_name = "knowledge_management" -> KnowledgeManagement_validate_input(task, context)
    [] skill_name = "vision_analysis" -> VisionAnalysis_validate_input(task, context)

\* What a task does is the skill's business (LLM, database and retrieval
\* calls): a behaviour says whether the task raises and, if not, the result
\* mapping it returns.
Raises == [raises |-> TRUE, result |-> <<>>]

Gives(result) == [raises |-> FALSE, result |-> result]

SkillBehaviours ==
  {Raises,
   Gives([report_type |-> "daily_report", report |-> SkillText("report")]),
   Gives([query |-> SkillText("query"), message |-> SkillText("message")])}

\* skill.execute whose failure is lost: an empty result instead of raising
skill_execute_swallowing(skill_name, task, context, beh) ==
  IF task \notin skill_tasks[skill_name] THEN Raised(UnknownTask(skill_name, task))
  ELSE IF beh.raises THEN Returned(<<>>)
  ELSE Returned(beh.result)

\* skill.execute(task, context): the dispatch chain, then the task itself
skill_execute(skill_name, task, context, beh) ==
  IF task \notin skill_tasks[skill_name] THEN Raised(UnknownTask(skill_name, task))
  ELSE IF beh.raises THEN Raised(SkillFault(skill_name, task))
  ELSE Returned(beh.result)

\* ------------------------------------------------------------ SkillManager
\* one call made on a skill instance, in the order the calls are made
Call(op, skill_name, task, context) ==
  [op |-> op, skill |-> skill_name, task |-> task, context |-> context]

\* execute_skill without the validation guard: the task is run whatever
\* validate_input answered
execute_skill_unvalidated(skills, skill_name, task, context, beh) ==
  IF skill_name \notin skills
  THEN [ret |-> Raised(SkillNotFound(skill_name)), calls |-> <<>>]
  ELSE LET r == skill_execute(skill_name, task, context, beh)
           both == <<Call("validate_input", skill_name, task, context),
                     Call("execute", skill_name, task, context)>>
       IN IF r.raised
          THEN [ret |-> Returned([success |-> FALSE, skill |-> skill_name,
                                  task |-> task, error |-> r.exc]),
                calls |-> both]
          ELSE [ret |-> Returned([success |-> TRUE, skill |-> skill_name,
                                  task |-> task, result |-> r.val]),
                calls |-> both]

\* SkillManager.execute_skill: the value returned or the exception raised
\* (ret), and the calls made on the skill instance (calls)
execute_skill(skills, skill_name, task, context, beh) ==
  IF skill_name \notin skills
  THEN [ret |-> Raised(SkillNotFound(skill_name)), calls |-> <<>>]
  ELSE IF ~validate_input(skill_name, task, context)
  THEN [ret |-> Raised(InvalidInput(skill_name, task)),
        calls |-> <<Call("validate_input", skill_name, task, context)>>]
  ELSE LET r == skill_execute(skill_name, task, context, beh)
           both == <<Call("validate_input", skill_name, task, context),
                     Call("execute", skill_name, task, context)>>
       IN IF r.raised
          THEN [ret |-> Returned([success |-> FALSE, skill |-> skill_name,
                                  task |-> task, error |-> r.exc]),
                calls |-> both]
          ELSE [ret |-> Returned([success |-> TRUE, skill |-> skill_name,
                                  task |-> task, result |-> r.val]),
                calls |-> both]

\* --------------------------------------------------------- _format_result
\* the statistics block built from result['statistics']
statistics_text(stats) == [kind |-> "statistics", stats |-> stats]

\* result['results'] is a non-empty list
HasFirstResult(result) ==
  "results" \in DOMAIN result /\ Len(result.results) > 0

\* first_result.get('content', '')
first_content(first_result) ==
  IF "content" \in DOMAIN first_result THEN first_result.content ELSE EMPTY

_format_result(result) ==
  IF "report" \in DOMAIN result THEN result.report
  ELSE IF "action_plan" \in DOMAIN result THEN result.action_plan
  ELSE IF "summary" \in DOMAIN result THEN result.summary
  ELSE IF "answer" \in DOMAIN result THEN result.answer
  ELSE IF HasFirstResult(result) THEN first_content(result.results[1])
  ELSE IF "guide" \in DOMAIN result THEN result.guide
  ELSE IF "statistics" \in DOMAIN result THEN statistics_text(result.statistics)
  ELSE json_dumps(result)

\* --------------------------------------------------------- _execute_skill
\* image_data is None (the empty mapping here) or a mapping with 'images'
NoImages == <<>>

\* the context prepared without the request text
build_context_without_query(skill_name, task, task_description, original_input, image_data) ==
  [task_description |-> task_description]

\* the context _execute_skill prepares for the task
build_context(skill_name, task, task_description, original_input, image_data) ==
  LET base == [query |-> original_input, task_description |-> task_description]
      extra ==
        IF skill_name = "report_generation" /\ task = "generate_action_plan"
        THEN [event_data |-> [event_type |-> _extract_event_type(original_input),
                              description |-> original_input,
                              severity |-> "MEDIUM",
                              timestamp |-> "N/A"],
              knowledge_context |-> original_input]
        ELSE IF skill_name = "report_generation" /\ task = "generate_event_report"
        THEN [events |-> <<>>]
        ELSE IF skill_name = "report_generation" /\ task = "generate_statistics_report"
        THEN [statistics |-> <<>>]
        ELSE <<>>
      images ==
        IF DOMAIN image_data # {}
        THEN [images |-> IF "images" \in DOMAIN image_data THEN image_data.images ELSE <<>>]
        ELSE <<>>
  IN base @@ extra @@ images

\* the except clause of _execute_skill letting the exception through
_execute_skill_reraising(skill_name, e) == Raised(e)

\* the except clause of _execute_skill
_execute_skill_except(skill_name, e) == Returned(skill_error_text(skill_name, e))

\* self._determine_task keeping, in an attribute of the supervisor, the
\* skills it has resolved a task for, and answering with the default task
\* of a skill it has seen before
self_determine_task_remembering(attributes, user_input, skill_name) ==
  LET seen == IF "_resolved" \in DOMAIN attributes
              THEN attributes["_resolved"] ELSE {}
  IN [task |-> IF skill_name \in seen
               THEN _determine_task({}, skill_name)
               ELSE _determine_task(user_input, skill_name),
      attributes |-> [a \in DOMAIN attributes \cup {"_resolved"} |->
                        IF a = "_resolved" THEN seen \cup {skill_name}
                        ELSE attributes[a]]]

\* self._determine_task(user_input, skill_name) on a supervisor whose
\* attributes are as given: the task resolved and the attributes after the
\* call (the method reads its two arguments and the tables it builds, and
\* assigns to no attribute of self)
self_determine_task(attributes, user_input, skill_name) ==
  [task |-> _determine_task(user_input, skill_name), attributes |-> attributes]

\* _execute_skill: the text returned or the exception raised (ret), the task
\* resolved, the context prepared, the calls made on the skill instance and
\* the attributes of the supervisor afterwards
_execute_skill(attributes, skills, skill_name, task_description, original_input, image_data, beh) ==
  LET resolved == self_determine_task(attributes, original_input, skill_name)
      task == resolved.task
      context == build_context(skill_name, task, task_description,
                               original_input, image_data)
      r == execute_skill(skills, skill_name, task, context, beh)
  IN [ret |-> IF r.ret.raised
              THEN _execute_skill_except(skill_name, r.ret.exc)
              ELSE Returned(_format_result(r.ret.val)),
      task |-> task,
      context |-> context,
      calls |-> r.calls,
      attributes |-> resolved.attributes]

\* the task (or the agent) was reached: the last call is not a validation
Reached(calls) ==
  Len(calls) > 0 /\ calls[Len(calls)].op # "validate_input"

\* the record kept of one run of _execute_skill (or _execute_single_agent):
\* its arguments, the calls made, what the task did if it was reached, and
\* what came back
Entry(name, description, beh, r) ==
  [skill |-> name, description |-> description, task |-> r.task,
   context |-> r.context, calls |-> r.calls,
   behaviour |-> IF Reached(r.calls) THEN <<beh>> ELSE <<>>,
   ret |-> r.ret]

\* ------------------------------------------- the generation collaborator
\* JSON values of a plan: a list, or null
JsonList(items) == [list |-> TRUE, items |-> items]

JsonNull == [list |-> FALSE, items |-> <<>>]

\* an element of "steps": a JSON object with the fields given, or a value
\* that is not an object (a string, a number)
StepObject(fields) == [object |-> TRUE, fields |-> fields]

NotAnObject == [object |-> FALSE, fields |-> <<>>]

\* dict.get(key, default)
Get(d, key, default) == IF key \in DOMAIN d THEN d[key] ELSE default

\* the skill names a plan can carry: the four of the prompt and one that no
\* directory of skills/ provides
PlanSkills == SkillDirs \cup {"web_intelligence"}

StepChoices ==
  {StepObject([skill |-> "report_generation", task |-> {"sub_task"}]),
   StepObject([skill |-> "knowledge_management"]),
   StepObject([skill |-> "web_intelligence", task |-> {"sub_task"}]),
   NotAnObject}

StepLists == UNION {[1..n -> StepChoices] : n \in 0..MaxSteps}

\* the JSON objects the generation collaborator can answer with
SinglePlans ==
  {[skill |-> s, task |-> {"sub_task"}, reason |-> "r", multi_step |-> FALSE] : s \in PlanSkills}
  \cup {[skill |-> s, reason |-> "r"] : s \in PlanSkills}
  \cup {[task |-> {"sub_task"}, reason |-> "r", multi_step |-> FALSE], <<>>}

MultiPlans ==
  {[multi_step |-> TRUE, steps |-> JsonList(l), reason |-> "r"] : l \in StepLists}
  \cup {[multi_step |-> TRUE, steps |-> JsonNull, reason |-> "r"],
        [multi_step |-> TRUE, reason |-> "r"],
        [multi_step |-> TRUE, skill |-> "data_analytics", task |-> {"sub_task"}]}

LlmPlans == SinglePlans \cup MultiPlans

\* what self.llm.invoke does: raises, or returns a content in which
\* re.search finds an object or not, and json.loads accepts it or not
LlmRaises == [raises |-> TRUE, has_object |-> FALSE, valid |-> FALSE, obj |-> <<>>]

LlmProse == [raises |-> FALSE, has_object |-> FALSE, valid |-> FALSE, obj |-> <<>>]

LlmBadJson == [raises |-> FALSE, has_object |-> TRUE, valid |-> FALSE, obj |-> <<>>]

LlmJson(obj) == [raises |-> FALSE, has_object |-> TRUE, valid |-> TRUE, obj |-> obj]

LlmResponses == {LlmRaises, LlmProse, LlmBadJson} \cup {LlmJson(p) : p \in LlmPlans}

\* --------------------------------------------------------------- llm_route
\* the plan returned when no object is found, and from the except clause
default_plan(user_input, reason) ==
  [skill |-> "knowledge_management", task |-> user_input,
   multi_step |-> FALSE, reason |-> reason]

\* llm_route trusting whatever came back: only a raising call falls back
llm_route_unguarded(user_input, resp) ==
  IF resp.raises THEN default_plan(user_input, "error: invoke raised")
  ELSE resp.obj

\* llm_route correcting a parsed plan whose skill no directory provides
llm_route_correcting(user_input, resp) ==
  IF resp.raises THEN default_plan(user_input, "error: invoke raised")
  ELSE IF ~resp.has_object THEN default_plan(user_input, "parse failure, default used")
  ELSE IF ~resp.valid THEN default_plan(user_input, "error: JSONDecodeError")
  ELSE IF Get(resp.obj, "skill", "knowledge_management") \notin SkillDirs
  THEN default_plan(user_input, "unknown skill corrected")
  ELSE resp.obj

llm_route(user_input, resp) ==
  IF resp.raises THEN default_plan(user_input, "error: invoke raised")
  ELSE IF ~resp.has_object THEN default_plan(user_input, "parse failure, default used")
  ELSE IF ~resp.valid THEN default_plan(user_input, "error: JSONDecodeError")
  ELSE resp.obj

\* truthiness of routing_plan.get("multi_step")
IsMultiStep(routing_plan) == Get(routing_plan, "multi_step", FALSE)

\* threaded_description forgetting the previous result
unthreaded_description(described, previous) == Description(described, EMPTY)

\* _execute_multi_step: the task description of a step, the previous result
\* appended when there is one
threaded_description(described, previous) ==
  IF TruthyText(previous)
  THEN Description(described, previous)
  ELSE Description(described, EMPTY)

\* the context kept as it was past a step that gave an error text
next_context_of_success(context, result) ==
  IF result.kind \in {"skill_error", "agent_error", "unknown_agent"}
  THEN context
  ELSE result

\* _execute_multi_step: `context = result` at the end of an iteration
next_context(context, result) == result

\* the except clause of execute letting the exception through
execute_reraising(e) == Raised(e)

\* the except clause of execute
execute_except(e) == Returned(request_error_text(e))

NotIterable == [type |-> "TypeError", what |-> "object is not iterable", skill |-> NONE, task |-> NONE]

\* result[:200] on None
NotSubscriptable == [type |-> "TypeError", what |-> "NoneType object is not subscriptable", skill |-> NONE, task |-> NONE]

NoGetAttribute == [type |-> "AttributeError", what |-> "object has no attribute get", skill |-> NONE, task |-> NONE]

\* ============================================ SupervisorAgent and app.py
\* the agents of agents_map
V1Agents == {"query", "analysis", "report", "search", "multimodal"}

\* what an agent's method does: returns a text, returns only whitespace,
\* returns the empty string, returns None, raises StopIteration, raises
\* another exception
AgentBehaviours == {"text", "blank", "empty", "none", "stop", "error"}

AgentText(agent_name) == [kind |-> "agent_text", agent |-> agent_name]

\* a text of whitespace only
BLANK == [kind |-> "blank"]

\* f"{agent_name} 에이전트가 응답을 생성하지 못했습니다. 다시 시도해주세요."
agent_no_response_text(agent_name) == [kind |-> "agent_no_response", agent |-> agent_name]

\* f"{agent_name} 에이전트 실행 중 오류: {str(e)}"
agent_error_text(agent_name, e) == [kind |-> "agent_error", agent |-> agent_name, error |-> e]

\* f"알 수 없는 에이전트: {agent_name}"
unknown_agent_text(agent_name) == [kind |-> "unknown_agent", agent |-> agent_name]

\* "멀티모달 에이전트는 이미지가 필요합니다."
MULTIMODAL_NEEDS_IMAGE == [kind |-> "multimodal_needs_image"]

\* "이미지가 제공되지 않았습니다."
NO_IMAGE_PROVIDED == [kind |-> "no_image_provided"]

AgentFault(agent_name) ==
  [type |-> "Exception", what |-> "raised by the agent", skill |-> agent_name, task |-> NONE]

StopIteration(agent_name) ==
  [type |-> "StopIteration", what |-> "", skill |-> agent_name, task |-> NONE]

\* the agent's method itself
agent_call(agent_name, beh) ==
  CASE beh = "text" -> Returned(AgentText(agent_name))
    [] beh = "blank" -> Returned(BLANK)
    [] beh = "empty" -> Returned(EMPTY)
    [] beh = "none" -> Returned(NoneValue)
    [] beh = "stop" -> Raised(StopIteration(agent_name))
    [] beh = "error" -> Raised(AgentFault(agent_name))

\* the except clauses of _execute_single_agent
_execute_single_agent_except(agent_name, e) ==
  IF e.type = "StopIteration"
  THEN Returned(agent_no_response_text(agent_name))
  ELSE Returned(agent_error_text(agent_name, e))

\* _execute_single_agent: ret, and the agent calls made
_execute_single_agent(agent_name, input, images, beh) ==
  IF agent_name \in {"query", "analysis", "report", "search"}
  THEN LET r == agent_call(agent_name, beh)
       IN [ret |-> IF r.raised THEN _execute_single_agent_except(agent_name, r.exc) ELSE r,
           task |-> NONE, context |-> input,
           calls |-> <<Call(agent_name, agent_name, NONE, input)>>]
  ELSE IF agent_name = "multimodal"
  THEN IF DOMAIN images # {}
       THEN IF Len(Get(images, "images", <<>>)) >= 1
            THEN LET r == agent_call(agent_name, beh)
                 IN [ret |-> IF r.raised
                             THEN _execute_single_agent_except(agent_name, r.exc)
                             ELSE r,
                     task |-> NONE, context |-> input,
                     calls |-> <<Call(agent_name, agent_name, NONE, input)>>]
            ELSE [ret |-> Returned(NO_IMAGE_PROVIDED), task |-> NONE,
                  context |-> input, calls |-> <<>>]
       ELSE [ret |-> Returned(MULTIMODAL_NEEDS_IMAGE), task |-> NONE,
             context |-> input, calls |-> <<>>]
  ELSE [ret |-> Returned(unknown_agent_text(agent_name)), task |-> NONE,
        context |-> input, calls |-> <<>>]

\* ------------------------------------------------------------------- route
V1StepChoices ==
  {StepObject([agent |-> "query", task |-> {"sub_task"}]),
   StepObject([agent |-> "search", task |-> {"sub_task"}]),
   StepObject([agent |-> "inspector"]),
   NotAnObject}

V1StepLists == UNION {[1..n -> V1StepChoices] : n \in 0..MaxSteps}

V1Plans ==
  {[agent |-> a, reason |-> "r", multi_step |-> FALSE, steps |-> JsonList(<<>>)] :
     a \in V1Agents \cup {"inspector"}}
  \cup {[reason |-> "r"],
        [agent |-> "query", reason |-> "r", multi_step |-> FALSE,
         steps |-> JsonList(<<StepObject([agent |-> "search", task |-> {"sub_task"}])>>)]}
  \cup {[multi_step |-> TRUE, steps |-> JsonList(l), reason |-> "r"] : l \in V1StepLists}
  \cup {[multi_step |-> TRUE, steps |-> JsonNull, reason |-> "r"],
        [multi_step |-> TRUE, reason |-> "r"]}

V1LlmResponses == {LlmRaises, LlmProse, LlmBadJson} \cup {LlmJson(p) : p \in V1Plans}

v1_default_plan(reason) == [agent |-> "query", multi_step |-> FALSE, reason |-> reason]

\* a step of the plan left as the generation collaborator gave it
replace_search_step_kept(step) == step

\* a step of the plan, "search" replaced by "report"
replace_search_step(step) ==
  IF Get(step.fields, "agent", NONE) = "search"
  THEN StepObject([agent |-> "report",
                   task |-> {"answer_from_internal_knowledge:"}
                            \cup Get(step.fields, "task", {})])
  ELSE step

route(input, resp) ==
  IF resp.raises THEN v1_default_plan("error: invoke raised")
  ELSE IF ~resp.has_object THEN v1_default_plan("parse failure, default used")
  ELSE IF ~resp.valid THEN v1_default_plan("error: JSONDecodeError")
  ELSE LET plan == resp.obj
           single == IF Get(plan, "agent", NONE) = "search"
                     THEN [k \in DOMAIN plan \cup {"agent", "reason"} |->
                             IF k = "agent" THEN "report"
                             ELSE IF k = "reason" THEN "search replaced by report"
                             ELSE plan[k]]
                     ELSE plan
       IN IF IsMultiStep(single) /\ "steps" \in DOMAIN single
          THEN IF ~single.steps.list
               THEN v1_default_plan("error: TypeError")
               ELSE IF \E k \in DOMAIN single.steps.items : ~single.steps.items[k].object
               THEN v1_default_plan("error: AttributeError")
               ELSE [single EXCEPT !.steps =
                       JsonList([k \in DOMAIN single.steps.items |->
                                   replace_search_step(single.steps.items[k])])]
          ELSE single

\* ----------------------------------------------------- _synthesize_results
\* response.content of the synthesis call, whose prompt carries the request
\* and every result
synthesis_answer(all_results, original_input) ==
  [kind |-> "synthesis", request |-> original_input, results |-> all_results]

_synthesize_results(all_results, original_input, resp) ==
  IF Len(all_results) = 0 THEN [ret |-> Returned(NO_RESULT), invoked |-> 0]
  ELSE IF Len(all_results) = 1
  THEN [ret |-> Returned(all_results[1].result), invoked |-> 0]
  ELSE IF resp.raises
  THEN [ret |-> Returned(all_results[Len(all_results)].result), invoked |-> 1]
  ELSE [ret |-> Returned(synthesis_answer(all_results, original_input)), invoked |-> 1]

\* the except clause of SupervisorAgent.execute
v1_execute_except(e) == Returned(request_error_text(e))

\* ------------------------------------------------------------ SecurityAgent
injection_keywords ==
  <<"ignore previous instructions", "ignore all previous instructions",
    "system prompt", "you are not", "dan mode", "developer mode",
    "unrestricted mode", "jailbreak", "sue you", "act as an adversary",
    "forget your rules", "siseutem peurompeuteu", "ijeon jisi musi",
    "jeoldaejeogin myeongnyeong", "gyuchigeul ijeora", "jehaneul haeje">>

\* a run of 5001 filler characters
Filler == "filler of 5001 characters"

\* len(user_input), a word other than the filler counted as 30 characters
\* at most
TextLength(input) ==
  (IF Filler \in input THEN 5001 ELSE 0) + 30 * Cardinality(input \ {Filler})

MaxInputLength == 5000

_check_rules(input) ==
  IF \E k \in DOMAIN injection_keywords : Contains(injection_keywords[k], input)
  THEN [safe |-> FALSE, reason |-> "forbidden keyword"]
  ELSE IF TextLength(input) > MaxInputLength
  THEN [safe |-> FALSE, reason |-> "input too long"]
  ELSE [safe |-> TRUE, reason |-> "Pass"]

\* what the security model answers: SAFE, "UNSAFE: reason", UNSAFE without
\* a reason, or the call raises
SecurityBehaviours == {"SAFE", "UNSAFE: reason", "UNSAFE", "raises"}

_check_llm(input, sec) ==
  CASE sec = "raises" -> [safe |-> TRUE, reason |-> "Check skipped due to error"]
    [] sec = "UNSAFE: reason" -> [safe |-> FALSE, reason |-> "reason"]
    [] sec = "UNSAFE" -> [safe |-> FALSE, reason |-> "inappropriate request detected"]
    [] sec = "SAFE" -> [safe |-> TRUE, reason |-> "Safe"]

\* one check run by check_safety, and what it answered
Check(name, verdict) == [check |-> name, safe |-> verdict.safe, reason |-> verdict.reason]

\* check_safety asking the model even when a rule has blocked the input
check_safety_asking_anyway(input, sec) ==
  LET rule == _check_rules(input)
      llm == _check_llm(input, sec)
      both == <<Check("rules", rule), Check("llm", llm)>>
  IN IF ~rule.safe
     THEN [safe |-> FALSE, reason |-> rule.reason, checks |-> both]
     ELSE IF ~llm.safe
     THEN [safe |-> FALSE, reason |-> llm.reason, checks |-> both]
     ELSE [safe |-> TRUE, reason |-> "Safe", checks |-> both]

\* check_safety: the verdict, and the checks run in order
check_safety(input, sec) ==
  LET rule == _check_rules(input)
      llm == _check_llm(input, sec)
  IN IF ~rule.safe
     THEN [safe |-> FALSE, reason |-> rule.reason, checks |-> <<Check("rules", rule)>>]
     ELSE IF ~llm.safe
     THEN [safe |-> FALSE, reason |-> llm.reason,
           checks |-> <<Check("rules", rule), Check("llm", llm)>>]
     ELSE [safe |-> TRUE, reason |-> "Safe",
           checks |-> <<Check("rules", rule), Check("llm", llm)>>]

\* ------------------------------------------------------------ process_query
\* the block message with its reason
blocked_text(reason) == [kind |-> "blocked", reason |-> reason]

\* "죄송합니다. 응답을 생성할 수 없습니다. 다시 시도해주세요."
APOLOGY == [kind |-> "apology"]

\* "응답 생성 중 오류가 발생했습니다. 질문을 다시 입력해주세요."
STOP_ITERATION_TEXT == [kind |-> "stop_iteration"]

\* the messages str(e) in which "StopIteration" occurs
StopIterationMessages ==
  {"StopIteration", "coroutine raised StopIteration", "generator raised StopIteration"}

\* "StopIteration" in error_message
NamesStopIteration(e) == e.what \in StopIterationMessages

\* f"처리 중 오류가 발생했습니다: {error_message}", the message being str(e),
\* or the fixed text when "StopIteration" occurs in str(e)
handler_error_text(e) ==
  [kind |-> "handler_error",
   error |-> IF NamesStopIteration(e) THEN STOP_ITERATION_TEXT ELSE e]

\* str.strip()
Strip(t) == IF t.kind \in {"empty", "blank"} THEN EMPTY ELSE t

\* the except clauses of process_query
process_query_except(e) ==
  IF e.type = "StopIteration"
  THEN Returned(STOP_ITERATION_TEXT)
  ELSE Returned(handler_error_text(e))

\* what SecurityAgent() or SupervisorAgent() can raise when first built
ConstructorExceptions ==
  {[type |-> "StopIteration", what |-> "", skill |-> NONE, task |-> NONE],
   [type |-> "RuntimeError", what |-> "coroutine raised StopIteration",
    skill |-> NONE, task |-> NONE],
   [type |-> "ValueError", what |-> "api key missing", skill |-> NONE, task |-> NONE]}

NoFault == [at |-> "none"]

\* the constructor that raises for this request, if one does
ConstructorFaults ==
  {NoFault} \cup {[at |-> a, exc |-> e] :
                    a \in {"security_agent", "supervisor"}, e \in ConstructorExceptions}

\* process_query testing response.strip() == "" alone: None has no strip,
\* the except clause answers
process_query_response_stripping_first(ret) ==
  IF ret.raised THEN process_query_except(ret.exc)
  ELSE IF ret.val = NoneValue
  THEN process_query_except([type |-> "AttributeError", what |-> "NoneType object has no attribute strip", skill |-> NONE, task |-> NONE])
  ELSE IF Strip(ret.val) = EMPTY THEN Returned(APOLOGY)
  ELSE ret

\* process_query once agent.execute has returned or raised:
\* `if not response or response.strip() == ""`, strip being called only on
\* a response that is neither None nor ""
process_query_response(ret) ==
  IF ret.raised THEN process_query_except(ret.exc)
  ELSE IF ~TruthyText(ret.val) THEN Returned(APOLOGY)
  ELSE IF Strip(ret.val) = EMPTY THEN Returned(APOLOGY)
  ELSE ret

\* f"멀티모달 쿼리 처리 중 오류가 발생했습니다: {error_message}"
multimodal_error_text(e) == [kind |-> "multimodal_handler_error", error |-> e]

\* the except clause of process_multimodal_query
process_multimodal_query_except(e) == Returned(multimodal_error_text(e))

\* process_multimodal_query once the agent has returned or raised
process_multimodal_query_response(ret) ==
  IF ret.raised THEN process_multimodal_query_except(ret.exc)
  ELSE IF ~TruthyText(ret.val) THEN Returned(APOLOGY)
  ELSE IF Strip(ret.val) = EMPTY THEN Returned(APOLOGY)
  ELSE ret

\* request.images and len(request.images) > 0
HasImages(images) == DOMAIN images # {} /\ Len(Get(images, "images", <<>>)) > 0

\* the except clauses of the handler called
handler_except(called, e) ==
  IF called = "process_multimodal_query"
  THEN process_multimodal_query_except(e)
  ELSE process_query_except(e)

\* what the operation called gives its caller, given what execute gave
Answer(called, ret) ==
  IF called = "process_query" THEN process_query_response(ret)
  ELSE IF called = "process_multimodal_query" THEN process_multimodal_query_response(ret)
  ELSE ret

\* -------------------------------------------------------------- the state
\* the sets of at most n elements of S
RECURSIVE UpTo(_, _)
UpTo(S, n) ==
  IF n = 0 THEN {{}}
  ELSE LET smaller == UpTo(S, n - 1)
       IN smaller \cup {t \cup {w} : t \in smaller, w \in S}

RequestTexts == UpTo(Vocabulary, MaxKeywords)

ImageData == {NoImages, [images |-> <<"image">>]}

\* ------------------------------------------- SkillManager: load and reload
\* the entries of skills/ that iterdir can yield: the skill directories and
\* a directory whose name starts with an underscore
DirEntries == SkillDirs \cup {"__pycache__"}

\* skill_path.is_dir() and not name.startswith('_') and skill.py exists
IsSkillDir(name) == name \in SkillDirs

\* iterdir yields the entries in an order the file system chooses
ScanOrders ==
  {order \in [1..Cardinality(DirEntries) -> DirEntries] :
     \A a, b \in DOMAIN order : a # b => order[a] # order[b]}

\* ImportError(f"Failed to load skill '{skill_name}': ...")
ImportError(name) ==
  [type |-> "ImportError", what |-> "Failed to load skill", skill |-> name, task |-> NONE]

\* self.skills = {}: no instance, no instance constructed yet
EmptyRegistry ==
  [instances |-> <<>>, constructed |-> [n \in SkillDirs |-> 0], failed |-> {}]

\* _load_skill: import, getattr and skill_class() succeed (constructs) and
\* the new instance is stored under the name, or ImportError is raised.  An
\* instance is known by the number of instances of its name constructed.
_load_skill(reg, name, constructs) ==
  IF constructs
  THEN [raised |-> FALSE,
        instances |-> [n \in DOMAIN reg.instances \cup {name} |->
                         IF n = name THEN reg.constructed[name] + 1
                         ELSE reg.instances[n]],
        constructed |-> [reg.constructed EXCEPT ![name] = @ + 1],
        failed |-> reg.failed]
  ELSE [raised |-> TRUE, instances |-> reg.instances,
        constructed |-> reg.constructed,
        failed |-> reg.failed \cup {name}]

\* the scan giving up at the first skill that fails to load
RECURSIVE load_from_stopping(_, _, _, _)
load_from_stopping(reg, entries, k, constructing) ==
  IF k > Len(entries) THEN reg
  ELSE IF ~IsSkillDir(entries[k]) THEN load_from_stopping(reg, entries, k + 1, constructing)
  ELSE LET r == _load_skill(reg, entries[k], entries[k] \in constructing)
           next == [instances |-> r.instances, constructed |-> r.constructed,
                    failed |-> r.failed]
       IN IF r.raised THEN next
          ELSE load_from_stopping(next, entries, k + 1, constructing)

\* the loop of _load_all_skills from entry k on: a failing skill is
\* reported (print) and the scan goes on
RECURSIVE load_from(_, _, _, _)
load_from(reg, entries, k, constructing) ==
  IF k > Len(entries) THEN reg
  ELSE IF ~IsSkillDir(entries[k]) THEN load_from(reg, entries, k + 1, constructing)
  ELSE LET r == _load_skill(reg, entries[k], entries[k] \in constructing)
       IN load_from([instances |-> r.instances, constructed |-> r.constructed,
                     failed |-> r.failed],
                    entries, k + 1, constructing)

\* SkillManager.__init__: self.skills = {} and _load_all_skills
_load_all_skills(entries, constructing) ==
  load_from(EmptyRegistry, entries, 1, constructing)

\* reload_skill clearing the whole registry before loading the skill again
reload_skill_clearing(reg, name, constructs) ==
  _load_skill([instances |-> <<>>, constructed |-> reg.constructed,
               failed |-> reg.failed], name, constructs)

\* reload_skill: the name is deleted if registered, then loaded again; the
\* ImportError of _load_skill goes to the caller
reload_skill(reg, name, constructs) ==
  _load_skill([instances |-> [n \in DOMAIN reg.instances \ {name} |-> reg.instances[n]],
               constructed |-> reg.constructed,
               failed |-> reg.failed], name, constructs)

\* the registries a SkillManager can hold after construction: every
\* directory whose skill constructed
Registries == {SkillDirs \ failed : failed \in UpTo(SkillDirs, MaxLoadFailures)}

\* what construction leaves: the scan order and the skills that construct
\* are the environment's
LoadedRegistries ==
  {_load_all_skills(order, SkillDirs \ failing) :
     order \in ScanOrders, failing \in UpTo(SkillDirs, MaxLoadFailures)}

\* the request texts sent to the HTTP handler and to SupervisorAgent
AppVocabulary == {"jailbreak", Filler, "iril"}

AppTexts == UpTo(AppVocabulary, MaxKeywords)

Pending == [pending |-> TRUE]

VARIABLES
  program,           \* "supervisor_v2" (SupervisorAgentV2), "supervisor_agent"
                     \* (a client of SupervisorAgent), "app" (app.py) or
                     \* "skill_manager" (a client of SkillManager alone)
  skills,            \* SkillManager.skills (the registered names)
  instances,         \* SkillManager.skills (the instance under each name)
  singletons,        \* the globals of app.py that are no longer None
  attributes,        \* the attributes set on the SupervisorAgentV2 object
                     \* by its methods since __init__ returned, by name
  constructed,       \* instances constructed so far, per skill directory
  load_failed,       \* skills reported as failed by _load_all_skills
  reloads,           \* the calls of reload_skill so far and how each ended
  called,            \* the operation called: "execute" or "process_query"
  checks,            \* the security checks run for this request, in order
  pc,                \* position of the request being handled
  user_input,        \* the request text
  image_data,        \* the image_data argument of execute
  routed_by,         \* "quick", "llm", or "none" before routing
  routing_plan,      \* the plan llm_route returned
  skill_name,        \* skill of a single-step run
  task_description,  \* task description of a single-step run
  steps,             \* steps of a multi-step run
  i,                 \* the next step of a multi-step run (1..)
  results,           \* results of _execute_multi_step
  context,           \* context of _execute_multi_step
  log,               \* the runs of _execute_skill for this request, in order
  llm_calls,         \* invocations of self.llm for this request
  llm_response,      \* what the routing invocation of self.llm did
  outcome            \* what the operation returned or raised

vars == <<program, attributes, singletons, skills, instances, constructed, load_failed, reloads, called, checks, pc, user_input, image_data, routed_by, routing_plan, skill_name,
          task_description, steps, i, results, context, log, llm_calls, llm_response, outcome>>

Init ==
  /\ \/ /\ program \in {"supervisor_v2", "skill_manager"}
        /\ \E reg \in LoadedRegistries :
             /\ instances = reg.instances
             /\ constructed = reg.constructed
             /\ load_failed = reg.failed
             /\ skills = DOMAIN reg.instances
     \/ /\ program \in {"supervisor_agent", "app"}
        /\ skills = {}
        /\ instances = <<>>
        /\ constructed = EmptyRegistry.constructed
        /\ load_failed = {}
  /\ singletons = {}
  /\ attributes = <<>>
  /\ reloads = <<>>
  /\ called = NONE
  /\ checks = <<>>
  /\ pc = "idle"
  /\ user_input = {}
  /\ image_data = NoImages
  /\ routed_by = "none"
  /\ routing_plan = <<>>
  /\ skill_name = NONE
  /\ task_description = Description({}, EMPTY)
  /\ steps = <<>>
  /\ i = 1
  /\ results = <<>>
  /\ context = EMPTY
  /\ log = <<>>
  /\ llm_calls = 0
  /\ llm_response = LlmProse
  /\ outcome = Pending

Locals == <<routed_by, routing_plan, skill_name, task_description, steps, i,
            results, context, log, llm_calls, llm_response, outcome>>

\* SupervisorAgentV2.execute(text, img) is called
execute_call(text, img) ==
  /\ program = "supervisor_v2"
  /\ pc = "idle"
  /\ pc' = "route"
  /\ called' = "execute"
  /\ user_input' = text
  /\ image_data' = img
  /\ UNCHANGED <<program, attributes, singletons, skills, instances, constructed, load_failed, reloads, checks, Locals>>

\* the caller has the answer; the next request starts from fresh locals
next_request ==
  /\ pc = "done"
  /\ pc' = "idle"
  /\ called' = NONE
  /\ checks' = <<>>
  /\ user_input' = {}
  /\ image_data' = NoImages
  /\ routed_by' = "none"
  /\ routing_plan' = <<>>
  /\ skill_name' = NONE
  /\ task_description' = Description({}, EMPTY)
  /\ steps' = <<>>
  /\ i' = 1
  /\ results' = <<>>
  /\ context' = EMPTY
  /\ log' = <<>>
  /\ llm_calls' = 0
  /\ llm_response' = LlmProse
  /\ outcome' = Pending
  /\ UNCHANGED <<program, attributes, singletons, skills, instances, constructed, load_failed, reloads>>

\* execute, step 1: quick_route found a skill
execute_quick_route ==
  /\ pc = "route"
  /\ quick_route(user_input) # NONE
  /\ routed_by' = "quick"
  /\ skill_name' = quick_route(user_input)
  /\ task_description' = Description(user_input, EMPTY)
  /\ pc' = "skill"
  /\ UNCHANGED <<program, attributes, singletons, skills, instances, constructed, load_failed, reloads, called, checks, user_input, image_data,
                 routing_plan, steps, i, results, context, log, llm_calls,
                 llm_response, outcome>>

\* execute, step 2: quick_route returned None, llm_route gives the plan
execute_llm_route(resp) ==
  /\ pc = "route"
  /\ quick_route(user_input) = NONE
  /\ LET plan == llm_route(user_input, resp)
         planned == Get(plan, "steps", JsonList(<<>>))
     IN /\ routed_by' = "llm"
        /\ llm_calls' = llm_calls + 1
        /\ llm_response' = resp
        /\ routing_plan' = plan
        /\ IF IsMultiStep(plan)
           THEN IF planned.list
                THEN /\ steps' = planned.items
                     /\ pc' = "multi"
                     /\ UNCHANGED <<skill_name, task_description, outcome>>
                ELSE \* enumerate(None) raises inside _execute_multi_step
                     /\ outcome' = execute_except(NotIterable)
                     /\ pc' = "done"
                     /\ UNCHANGED <<skill_name, task_description, steps>>
           ELSE /\ skill_name' = Get(plan, "skill", NONE)
                /\ task_description' = Description(Get(plan, "task", user_input), EMPTY)
                /\ pc' = "skill"
                /\ UNCHANGED <<steps, outcome>>
  /\ UNCHANGED <<program, attributes, singletons, skills, instances, constructed, load_failed, reloads, called, checks, user_input, image_data, i,
                 results, context, log>>

\* execute, step 3: the single skill is run and its text returned
execute_skill_step(beh) ==
  /\ pc = "skill"
  /\ LET r == _execute_skill(attributes, skills, skill_name, task_description,
                             user_input, image_data, beh)
     IN /\ log' = Append(log, Entry(skill_name, task_description, beh, r))
        /\ attributes' = r.attributes
        /\ outcome' = IF r.ret.raised THEN execute_except(r.ret.exc) ELSE r.ret
  /\ pc' = "done"
  /\ UNCHANGED <<program, singletons, skills, instances, constructed, load_failed, reloads, called, checks, user_input, image_data,
                 routed_by, routing_plan, skill_name, task_description, steps, i,
                 results, context, llm_calls, llm_response>>

\* _execute_multi_step: one iteration of the loop over the steps
multi_step_iteration(beh) ==
  /\ pc = "multi"
  /\ i <= Len(steps)
  /\ IF ~steps[i].object
     THEN \* step.get raises; the except clause of execute returns
          /\ outcome' = execute_except(NoGetAttribute)
          /\ pc' = "done"
          /\ UNCHANGED <<i, results, context, log, attributes>>
     ELSE LET step == steps[i].fields
              name == Get(step, "skill", NONE)
              description == threaded_description(Get(step, "task", user_input),
                                                  context)
              r == _execute_skill(attributes, skills, name, description, user_input,
                                  NoImages, beh)
          IN /\ log' = Append(log, Entry(name, description, beh, r))
             /\ attributes' = r.attributes
             /\ IF r.ret.raised
                THEN /\ outcome' = execute_except(r.ret.exc)
                     /\ pc' = "done"
                     /\ UNCHANGED <<i, results, context>>
                ELSE /\ results' = Append(results, [step |-> i, skill |-> name,
                                                      task |-> description,
                                                      result |-> r.ret.val])
                     /\ context' = next_context(context, r.ret.val)
                     /\ i' = i + 1
                     /\ UNCHANGED <<pc, outcome>>
  /\ UNCHANGED <<program, singletons, skills, instances, constructed, load_failed, reloads, called, checks, user_input, image_data,
                 routed_by, routing_plan, skill_name, task_description, steps,
                 llm_calls, llm_response>>

\* last_result indexing the results without looking whether there are any
last_result_unguarded(all_results) ==
  IF Len(all_results) > 0
  THEN Returned(all_results[Len(all_results)].result)
  ELSE execute_except([type |-> "IndexError", what |-> "list index out of range",
                       skill |-> NONE, task |-> NONE])

\* what _execute_multi_step returns once the loop is over
last_result(all_results) ==
  IF Len(all_results) > 0
  THEN Returned(all_results[Len(all_results)].result)
  ELSE Returned(NO_RESULT)

\* _execute_multi_step: the loop is over, the last result is returned
multi_step_return ==
  /\ pc = "multi"
  /\ i > Len(steps)
  /\ outcome' = last_result(results)
  /\ pc' = "done"
  /\ UNCHANGED <<program, attributes, singletons, skills, instances, constructed, load_failed, reloads, called, checks, user_input, image_data,
                 routed_by, routing_plan, skill_name, task_description, steps, i,
                 results, context, log, llm_calls, llm_response>>

\* manager.reload_skill(name) is called by the client of the SkillManager
reload_skill_call(name, constructs) ==
  /\ program = "skill_manager"
  /\ Len(reloads) < MaxReloads
  /\ LET r == reload_skill([instances |-> instances, constructed |-> constructed,
                            failed |-> load_failed], name, constructs)
     IN /\ instances' = r.instances
        /\ constructed' = r.constructed
        /\ skills' = DOMAIN r.instances
        /\ reloads' = Append(reloads, [name |-> name, raised |-> r.raised])
  /\ UNCHANGED <<program, attributes, singletons, load_failed, called, checks, pc, user_input, image_data, Locals>>

\* ------------------------------------------- SupervisorAgent and app.py
\* SupervisorAgent.execute(text) is called by a client holding the agent
v1_execute_call(text) ==
  /\ program = "supervisor_agent"
  /\ pc = "idle"
  /\ pc' = "v1_route"
  /\ called' = "execute"
  /\ user_input' = text
  /\ UNCHANGED <<program, attributes, singletons, skills, instances, constructed, load_failed, reloads, checks, image_data, Locals>>

\* startup_event, run when the server starts, before any global is set:
\* get_supervisor() then get_security_agent(); a constructor that raises
\* leaves its global None and ends the event with the exception
startup_event(fault) ==
  /\ program = "app"
  /\ pc = "idle"
  /\ singletons = {}
  /\ singletons' = (IF fault.at = "supervisor" THEN {}
                    ELSE IF fault.at = "security_agent" THEN {"supervisor"}
                    ELSE {"supervisor", "security_agent"})
  /\ UNCHANGED <<program, attributes, skills, instances, constructed, load_failed, reloads, called, checks, pc, user_input, image_data, Locals>>

\* POST /api/query with the text
process_query_call(text) ==
  /\ program = "app"
  /\ pc = "idle"
  /\ pc' = "security"
  /\ called' = "process_query"
  /\ user_input' = text
  /\ UNCHANGED <<program, attributes, singletons, skills, instances, constructed, load_failed, reloads, checks, image_data, Locals>>

\* POST /api/multimodal-query with the text and the images
process_multimodal_query_call(text, images) ==
  /\ program = "app"
  /\ pc = "idle"
  /\ pc' = "security"
  /\ called' = "process_multimodal_query"
  /\ user_input' = text
  /\ image_data' = images
  /\ UNCHANGED <<program, attributes, singletons, skills, instances, constructed, load_failed, reloads, checks, Locals>>

\* process_query and process_multimodal_query: the security check, and the
\* block message if it fails; with images the multimodal agent is run
\* directly, otherwise the supervisor's execute
process_query_security(sec, fault) ==
  /\ pc = "security"
  /\ fault.at # "none" => fault.at \notin singletons
  /\ IF fault.at = "security_agent"
     THEN \* get_security_agent(): SecurityAgent() raises, the global stays None
          /\ pc' = "done"
          /\ outcome' = handler_except(called, fault.exc)
          /\ UNCHANGED <<singletons, checks, skill_name>>
     ELSE LET verdict == check_safety(user_input, sec)
          IN /\ checks' = verdict.checks
             /\ IF ~verdict.safe
                THEN /\ pc' = "done"
                     /\ outcome' = Returned(blocked_text(verdict.reason))
                     /\ singletons' = singletons \cup {"security_agent"}
                     /\ UNCHANGED skill_name
                ELSE IF fault.at = "supervisor"
                THEN \* get_supervisor(): SupervisorAgent() raises
                     /\ pc' = "done"
                     /\ outcome' = handler_except(called, fault.exc)
                     /\ singletons' = singletons \cup {"security_agent"}
                     /\ UNCHANGED skill_name
                ELSE IF called = "process_multimodal_query" /\ HasImages(image_data)
                THEN /\ pc' = "v1_single"
                     /\ skill_name' = "multimodal"
                     /\ singletons' = singletons \cup {"security_agent", "supervisor"}
                     /\ UNCHANGED outcome
                ELSE /\ pc' = "v1_route"
                     /\ singletons' = singletons \cup {"security_agent", "supervisor"}
                     /\ UNCHANGED <<skill_name, outcome>>
  /\ UNCHANGED <<program, attributes, skills, instances, constructed, load_failed, reloads, called, user_input, image_data, routed_by,
                 routing_plan, task_description, steps, i, results,
                 context, log, llm_calls, llm_response>>

\* SupervisorAgent.execute, step 1: route
v1_route(resp) ==
  /\ pc = "v1_route"
  /\ LET plan == route(user_input, resp)
         planned == Get(plan, "steps", JsonList(<<>>))
     IN /\ routed_by' = "llm"
        /\ llm_calls' = llm_calls + 1
        /\ llm_response' = resp
        /\ routing_plan' = plan
        /\ IF IsMultiStep(plan)
           THEN IF planned.list
                THEN /\ steps' = planned.items
                     /\ pc' = "v1_multi"
                     /\ UNCHANGED <<skill_name, outcome>>
                ELSE /\ outcome' = Answer(called, v1_execute_except(NotIterable))
                     /\ pc' = "done"
                     /\ UNCHANGED <<skill_name, steps>>
           ELSE /\ skill_name' = Get(plan, "agent", "query")
                /\ pc' = "v1_single"
                /\ UNCHANGED <<steps, outcome>>
  /\ UNCHANGED <<program, attributes, singletons, skills, instances, constructed, load_failed, reloads, called, checks, user_input, image_data,
                 task_description, i, results, context, log>>

\* SupervisorAgent.execute, step 2: the single agent
v1_single_agent(beh) ==
  /\ pc = "v1_single"
  /\ LET input == Description(user_input, EMPTY)
         \* execute passes no image_data; the direct call of the multimodal
         \* handler (nothing routed) passes the request's
         images == IF routed_by = "none" THEN image_data ELSE NoImages
         r == _execute_single_agent(skill_name, input, images, beh)
     IN /\ log' = Append(log, Entry(skill_name, input, beh, r))
        /\ outcome' = Answer(called, IF r.ret.raised
                                     THEN v1_execute_except(r.ret.exc)
                                     ELSE r.ret)
  /\ pc' = "done"
  /\ UNCHANGED <<program, attributes, singletons, skills, instances, constructed, load_failed, reloads, called, checks, user_input, image_data,
                 routed_by, routing_plan, skill_name, task_description, steps, i,
                 results, context, llm_calls, llm_response>>

\* SupervisorAgent._execute_multi_step: one iteration of the loop
v1_multi_step_iteration(beh) ==
  /\ pc = "v1_multi"
  /\ i <= Len(steps)
  /\ IF ~steps[i].object
     THEN /\ outcome' = Answer(called, v1_execute_except(NoGetAttribute))
          /\ pc' = "done"
          /\ UNCHANGED <<i, results, context, log>>
     ELSE LET step == steps[i].fields
              name == Get(step, "agent", NONE)
              task == Get(step, "task", user_input)
              task_with_context == threaded_description(task, context)
              r == _execute_single_agent(name, task_with_context, NoImages, beh)
          IN /\ log' = Append(log, Entry(name, task_with_context, beh, r))
             /\ IF r.ret.raised
                THEN /\ outcome' = Answer(called, v1_execute_except(r.ret.exc))
                     /\ pc' = "done"
                     /\ UNCHANGED <<i, results, context>>
                ELSE /\ results' = Append(results, [step |-> i, skill |-> name,
                                                      task |-> Description(task, EMPTY),
                                                      result |-> r.ret.val])
                     /\ context' = next_context(context, r.ret.val)
                     /\ IF r.ret.val = NoneValue
                        THEN \* result[:200] raises once the result is kept
                             /\ outcome' = Answer(called, v1_execute_except(NotSubscriptable))
                             /\ pc' = "done"
                             /\ UNCHANGED i
                        ELSE /\ i' = i + 1
                             /\ UNCHANGED <<pc, outcome>>
  /\ UNCHANGED <<program, attributes, singletons, skills, instances, constructed, load_failed, reloads, called, checks, user_input, image_data,
                 routed_by, routing_plan, skill_name, task_description, steps,
                 llm_calls, llm_response>>

\* SupervisorAgent._execute_multi_step: the loop is over, the results are
\* synthesized
v1_synthesize(resp) ==
  /\ pc = "v1_multi"
  /\ i > Len(steps)
  /\ LET r == _synthesize_results(results, user_input, resp)
     IN /\ llm_calls' = llm_calls + r.invoked
        /\ outcome' = Answer(called, r.ret)
  /\ pc' = "done"
  /\ UNCHANGED <<program, attributes, singletons, skills, instances, constructed, load_failed, reloads, called, checks, user_input, image_data,
                 routed_by, routing_plan, skill_name, task_description, steps, i,
                 results, context, log, llm_response>>

Next ==
  \/ \E text \in RequestTexts, img \in ImageData : execute_call(text, img)
  \/ execute_quick_route
  \/ \E resp \in LlmResponses : execute_llm_route(resp)
  \/ \E beh \in SkillBehaviours : execute_skill_step(beh)
  \/ \E beh \in SkillBehaviours : multi_step_iteration(beh)
  \/ multi_step_return
  \/ next_request
  \/ \E name \in SkillDirs, constructs \in BOOLEAN : reload_skill_call(name, constructs)
  \/ \E text \in AppTexts : v1_execute_call(text)
  \/ \E fault \in ConstructorFaults : startup_event(fault)
  \/ \E text \in AppTexts : process_query_call(text)
  \/ \E text \in AppTexts, img \in ImageData : process_multimodal_query_call(text, img)
  \/ \E sec \in SecurityBehaviours, fault \in ConstructorFaults :
       process_query_security(sec, fault)
  \/ \E resp \in V1LlmResponses : v1_route(resp)
  \/ \E beh \in AgentBehaviours : v1_single_agent(beh)
  \/ \E beh \in AgentBehaviours : v1_multi_step_iteration(beh)
  \/ \E resp \in {LlmRaises, LlmProse} : v1_synthesize(resp)

Spec == Init /\ [][Next]_vars

\* ================================================================= claims
V2 == program = "supervisor_v2"

IsText(t) == "kind" \in DOMAIN t /\ t # NoneValue

\* the plan of this request is a multi-step plan
MultiRun == routed_by = "llm" /\ IsMultiStep(routing_plan)

\* every element of the steps is a JSON object
AllObjects(ss) == \A k \in DOMAIN ss : ss[k].object

\* the plan carries a list of steps, each of them an object
StepsGiven ==
  LET planned == Get(routing_plan, "steps", JsonList(<<>>))
  IN planned.list /\ AllObjects(planned.items)

\* the operations called on the skill instance in one run, in order
Ops(e) == [k \in DOMAIN e.calls |-> e.calls[k].op]

\* a keyword of the quick-route entry of skill s occurs in the text
Matches(s, text) == \E kw \in Range(keywords_map[s]) : Contains(kw, text)

Position(s) == CHOOSE k \in DOMAIN keywords_order : keywords_order[k] = s

\* execute of SupervisorAgent handed back the None its only agent run
\* returned in place of a text
AgentNoneReturned ==
  /\ program = "supervisor_agent" /\ called = "execute"
  /\ Len(log) = 1 /\ log[1].ret = Returned(NoneValue)
  /\ ~IsMultiStep(routing_plan)
  /\ outcome = Returned(NoneValue)

C2_QuickRoute ==
  (V2 /\ pc \in {"skill", "multi", "done"}
      /\ \E s \in SkillDirs : Matches(s, user_input)) =>
    /\ routed_by = "quick"
    /\ llm_calls = 0
    /\ pc # "multi" /\ steps = <<>> /\ results = <<>>
    /\ skill_name \in SkillDirs
    /\ Matches(skill_name, user_input)
    /\ \A s \in SkillDirs : Matches(s, user_input) => Position(skill_name) <= Position(s)
    /\ Len(log) = (IF pc = "done" THEN 1 ELSE 0)
    /\ \A n \in DOMAIN log : log[n].skill = skill_name

\* a text with keywords of two skills was quick-routed and handled
C2_Witness ==
  /\ pc = "done" /\ V2 /\ routed_by = "quick"
  /\ skill_name = "report_generation"
  /\ Matches("vision_analysis", user_input)

\* C3: a multi-step plan of n steps is run in declared order, one result per
\* step in the same order, and from the second step on the task description
\* put in the context of the skill's calls carries the text returned by the
\* step before.
C3_OrderedSteps ==
  (V2 /\ pc \in {"multi", "done"} /\ MultiRun /\ StepsGiven) =>
    /\ Len(results) = i - 1
    /\ Len(log) = Len(results)
    /\ pc = "done" => Len(results) = Len(steps)
    /\ \A k \in DOMAIN results :
         /\ results[k].step = k
         /\ results[k].skill = Get(steps[k].fields, "skill", NONE)
         /\ log[k].skill = results[k].skill
         /\ log[k].ret = Returned(results[k].result)
         /\ results[k].task.words = Get(steps[k].fields, "task", user_input)
         /\ k > 1 =>
              /\ TruthyText(results[k - 1].result)
              /\ results[k].task.previous = results[k - 1].result
              /\ \A c \in DOMAIN log[k].calls :
                   log[k].calls[c].context.task_description.previous
                     = results[k - 1].result

\* a plan of at least two steps has ended, the task of a later step having
\* run with the earlier result in its context
C3_Witness ==
  /\ pc = "done" /\ V2 /\ MultiRun
  /\ Len(results) >= 2
  /\ \E k \in DOMAIN log : k > 1 /\ Reached(log[k].calls)

\* the step named an unregistered skill and got the not-found error text
NotFoundResult(r) ==
  r.result = skill_error_text(r.skill, SkillNotFound(r.skill))

\* the answer is made of all the step results (what a synthesis pass gives)
Combined(text, all_results) ==
  text.kind = "synthesis" /\ text.results = all_results

\* C4: in a multi-step plan a step naming an unregistered skill gets the
\* not-found error text as the result of that step only, every other step
\* is still run and gets its own result, and the answer returned is a
\* combined answer made from the step results.
C4_CombinedAnswer ==
  (V2 /\ pc = "done" /\ MultiRun /\ StepsGiven
      /\ Len(results) >= 2
      /\ \E k \in DOMAIN results : results[k].skill \notin skills) =>
    /\ Len(results) = Len(steps)
    /\ \A k \in DOMAIN results :
         results[k].skill \notin skills <=> NotFoundResult(results[k])
    /\ Combined(outcome.val, results)

\* C4, what the engine keeps of it: the not-found error text is the result
\* of the unregistered step alone, made without any call on a skill, every
\* step gets its result, and the answer is the result of the last step.
C4_UnknownSkillTolerated ==
  (V2 /\ pc = "done" /\ MultiRun /\ StepsGiven) =>
    /\ Len(results) = Len(steps)
    /\ \A k \in DOMAIN results :
         /\ results[k].skill = Get(steps[k].fields, "skill", NONE)
         /\ results[k].skill \notin skills <=> NotFoundResult(results[k])
         /\ results[k].skill \notin skills => log[k].calls = <<>>
         /\ results[k].skill \in skills => Len(log[k].calls) >= 1
    /\ outcome = last_result(results)

\* a three-step plan whose second step names an unregistered skill ended
\* with the results ok, error, ok
C4_Witness ==
  /\ pc = "done" /\ V2 /\ MultiRun
  /\ Len(results) = 3
  /\ results[1].result.kind = "json" /\ results[1].result.obj.success
  /\ NotFoundResult(results[2])
  /\ results[3].result.kind = "json" /\ results[3].result.obj.success

\* the routing call raised, or its content had no object or invalid JSON
Unparsed(resp) == resp.raises \/ ~resp.has_object \/ ~resp.valid

FailureReasons ==
  {"error: invoke raised", "parse failure, default used", "error: JSONDecodeError"}

\* C5: when the routing call raises or its content cannot be parsed, the
\* plan is not multi-step, names the default skill (knowledge_management;
\* the query agent in SupervisorAgent), carries a reason recording the
\* failure, and exactly one step is run for it.
C5_FallbackPlan ==
  (routed_by = "llm" /\ Unparsed(llm_response)) =>
    /\ ~IsMultiStep(routing_plan)
    /\ "steps" \notin DOMAIN routing_plan
    /\ "reason" \in DOMAIN routing_plan
    /\ routing_plan.reason \in FailureReasons
    /\ IF V2
       THEN /\ routing_plan.skill = "knowledge_management"
            /\ routing_plan.task = user_input
            /\ skill_name = "knowledge_management"
       ELSE /\ routing_plan.agent = "query"
            /\ skill_name = "query"
    /\ steps = <<>> /\ results = <<>>
    /\ Len(log) = (IF pc = "done" THEN 1 ELSE 0)
    /\ \A n \in DOMAIN log : log[n].skill = skill_name

\* the content had an object that is not JSON, and the default skill ran
C5_Witness ==
  /\ pc = "done" /\ V2 /\ routed_by = "llm"
  /\ llm_response = LlmBadJson
  /\ Len(log) = 1 /\ log[1].skill = "knowledge_management"

\* a plan is well-formed: a single step naming a skill, or a multi-step plan
\* with a list of at least one step
WellFormed(plan) ==
  IF IsMultiStep(plan)
  THEN "steps" \in DOMAIN plan /\ plan.steps.list /\ Len(plan.steps.items) >= 1
  ELSE "skill" \in DOMAIN plan

\* C6: every plan llm_route hands to the engine is well-formed, also when
\* it comes from a successfully parsed response.
C6_WellFormedPlan ==
  (V2 /\ routed_by = "llm") => WellFormed(routing_plan)

\* keyword k of the table occurs in the text and none before it does
FirstHit(pairs, k, text) ==
  /\ Contains(pairs[k][1], text)
  /\ \A j \in 1..(k - 1) : ~Contains(pairs[j][1], text)

\* C7: the task resolved for a run is the task of the first keyword, in the
\* order of the skill's table, that occurs in the request text, the skill's
\* default task when none occurs, and "execute" for a name without a table;
\* a task is always resolved.
C7_TaskResolver ==
  V2 => \A n \in DOMAIN log :
    IF log[n].skill \in SkillDirs
    THEN LET pairs == task_mapping[log[n].skill]
         IN \/ \E k \in DOMAIN pairs :
                 FirstHit(pairs, k, user_input) /\ log[n].task = pairs[k][2]
            \/ /\ \A k \in DOMAIN pairs : ~Contains(pairs[k][1], user_input)
               /\ log[n].task = default_tasks[log[n].skill]
    ELSE log[n].task = "execute"

\* two keywords of the report table occur and the earlier one decided
C7_Witness ==
  /\ pc = "done" /\ V2
  /\ {"iril", "bogoseo"} \subseteq user_input
  /\ Len(log) = 1
  /\ log[1].skill = "report_generation"
  /\ log[1].task = "generate_daily_report"

\* C8: on a registered skill validate_input is called first, with the task
\* and context execute would get; execute is called only when it answered
\* true; when it answered false the run returns the invalid-input error
\* text, which is not the dump that reports a task that raised.
C8_ValidateBeforeExecute ==
  V2 => \A n \in DOMAIN log :
    LET e == log[n]
        valid == validate_input(e.skill, e.task, e.context)
    IN /\ Ops(e) \in {<<>>, <<"validate_input">>, <<"validate_input", "execute">>}
       /\ \A k \in DOMAIN e.calls :
            /\ e.calls[k].skill = e.skill
            /\ e.calls[k].task = e.task
            /\ e.calls[k].context = e.context
       /\ Ops(e) = <<>> <=> e.skill \notin skills
       /\ e.skill \in skills =>
            /\ Ops(e) = <<"validate_input", "execute">> <=> valid
            /\ ~valid => e.ret = Returned(skill_error_text(e.skill,
                                                          InvalidInput(e.skill, e.task)))
            /\ valid => e.ret.val.kind # "skill_error"

\* a registered skill refused its input: validate_input was its only call
C8_Witness ==
  /\ pc = "done" /\ V2
  /\ \E n \in DOMAIN log :
       /\ log[n].skill \in skills
       /\ Ops(log[n]) = <<"validate_input">>
       /\ log[n].ret.val.kind = "skill_error"

\* C9: when the task of a skill raises, the run of that step still returns:
\* its text is the dump of a result marked failed that carries the error,
\* it is the result of that step, and a multi-step plan goes on to its end.
C9_ExecuteRaiseCaught ==
  V2 => \A n \in DOMAIN log :
    (Reached(log[n].calls) /\ log[n].behaviour[1].raises) =>
      /\ log[n].ret = Returned(json_dumps(
           [success |-> FALSE, skill |-> log[n].skill, task |-> log[n].task,
            error |-> SkillFault(log[n].skill, log[n].task)]))
      /\ MultiRun =>
           /\ Len(results) >= n
           /\ results[n].result = log[n].ret.val
           /\ pc = "multi" => i > n
           /\ (pc = "done" /\ StepsGiven) =>
                (Len(results) = Len(steps) /\ outcome = last_result(results))

\* a task raised in a step that is not the last, and the next step ran
C9_Witness ==
  /\ pc = "done" /\ V2 /\ MultiRun
  /\ \E n \in DOMAIN log :
       /\ n < Len(log)
       /\ Reached(log[n].calls) /\ log[n].behaviour[1].raises
       /\ Reached(log[n + 1].calls)

\* the extraction order of the claim, over the skill's own result mapping
ClaimedRendering(result) ==
  IF "report" \in DOMAIN result THEN result.report
  ELSE IF "answer" \in DOMAIN result THEN result.answer
  ELSE IF "summary" \in DOMAIN result THEN result.summary
  ELSE IF "guide" \in DOMAIN result THEN result.guide
  ELSE IF "statistics" \in DOMAIN result THEN statistics_text(result.statistics)
  ELSE IF HasFirstResult(result) THEN first_content(result.results[1])
  ELSE json_dumps(result)

\* C10: a single-step run whose skill returned a result answers with the
\* field extracted from that result in the fixed order, a raw dump only
\* when the result has none of the fields, and no generation call is made
\* for it.
C10_SingleResultRendered ==
  (V2 /\ pc = "done" /\ ~MultiRun /\ Len(log) = 1
      /\ Reached(log[1].calls) /\ ~log[1].behaviour[1].raises) =>
    /\ outcome = Returned(ClaimedRendering(log[1].behaviour[1].result))
    /\ llm_calls = (IF routed_by = "llm" THEN 1 ELSE 0)

\* C11: when a plan gave more than one step result, one synthesis call is
\* made to the generation collaborator (the second call of the request,
\* after the routing call) and its answer, made from every step result and
\* the request, is returned; when that call fails the result of the last
\* step is.
C11_SynthesisOfResults ==
  (pc = "done" /\ called = "execute" /\ MultiRun /\ StepsGiven
      /\ Len(results) >= 2 /\ Len(results) = Len(steps)) =>
    /\ llm_calls = 2
    /\ \/ outcome = Returned(synthesis_answer(results, user_input))
       \/ outcome = last_result(results)

\* C11, what SupervisorAgent keeps of it: its execute synthesizes
C11_SupervisorAgentSynthesis ==
  (program = "supervisor_agent" /\ pc = "done" /\ called = "execute" /\ MultiRun /\ StepsGiven
      /\ Len(results) >= 2 /\ Len(results) = Len(steps)
      /\ \A k \in DOMAIN results : results[k].result # NoneValue) =>
    /\ llm_calls = 2
    /\ \/ outcome = Returned(synthesis_answer(results, user_input))
       \/ outcome = last_result(results)

\* C12: a multi-step plan with no steps gives no step result, and the
\* answer is the fixed no-result message; no skill (or agent) is run and the
\* only generation call of the request is the routing call.
C12_NoResultMessage ==
  (pc = "done" /\ called = "execute" /\ MultiRun /\ StepsGiven /\ steps = <<>>) =>
    /\ results = <<>>
    /\ log = <<>>
    /\ llm_calls = 1
    /\ outcome = Returned(NO_RESULT)

\* a plan with multi_step true and an empty list of steps was handled
C12_Witness ==
  /\ pc = "done" /\ V2 /\ MultiRun
  /\ "steps" \in DOMAIN routing_plan
  /\ routing_plan.steps = JsonList(<<>>)
  /\ outcome = Returned(NO_RESULT)

NoError == [type |-> "none", what |-> "none", skill |-> NONE, task |-> NONE]

\* the error a text reports: that of the error text of _execute_skill, or
\* that of the dumped result of the SkillManager
ReportedError(text) ==
  IF text.kind = "skill_error" THEN text.error
  ELSE IF text.kind = "json" /\ "error" \in DOMAIN text.obj THEN text.obj.error
  ELSE NoError

\* C13: a run of a registered skill with a task the skill does not expose
\* reaches execute, which raises the unknown-task error, and the text of
\* the run reports that error, not the invalid-input error of a refused
\* context.
C13_UnknownTaskReported ==
  V2 => \A n \in DOMAIN log :
    (log[n].skill \in skills /\ log[n].task \notin skill_tasks[log[n].skill]) =>
      /\ Reached(log[n].calls)
      /\ ReportedError(log[n].ret.val) = UnknownTask(log[n].skill, log[n].task)

\* C14: after construction the registry holds exactly the skills whose
\* construction succeeded, one instance each, and the others are the ones
\* reported as failed, whatever the order of the scan.
C14_LoadKeepsTheRest ==
  (program \in {"supervisor_v2", "skill_manager"} /\ reloads = <<>>) =>
    /\ skills = SkillDirs \ load_failed
    /\ skills \in Registries
    /\ DOMAIN instances = skills
    /\ \A n \in skills : instances[n] = 1 /\ constructed[n] = 1
    /\ \A n \in load_failed : constructed[n] = 0

\* a skill failed to load and a request was handled by the rest: one step
\* named the failed skill, another a loaded one
C14_Witness ==
  /\ pc = "done" /\ V2 /\ load_failed # {}
  /\ \E n, m \in DOMAIN log :
       /\ log[n].skill \in load_failed
       /\ log[m].skill \in skills /\ Len(log[m].calls) >= 1

\* C15: the registry is a mapping from names to instances (at most one
\* each); a reload_skill whose load succeeds leaves under the name an
\* instance constructed by that call, one whose load raises leaves the
\* name unregistered, and either way every other name keeps its instance.
C15_ReloadReplaces ==
  [][Len(reloads') = Len(reloads) + 1 =>
       LET name == reloads'[Len(reloads')].name
           raised == reloads'[Len(reloads')].raised
       IN /\ DOMAIN instances' \subseteq SkillDirs
          /\ skills' = DOMAIN instances'
          /\ \A m \in SkillDirs \ {name} :
               /\ m \in DOMAIN instances' <=> m \in DOMAIN instances
               /\ m \in DOMAIN instances => instances'[m] = instances[m]
          /\ ~raised =>
               /\ name \in DOMAIN instances'
               /\ instances'[name] > constructed[name]
               /\ name \in DOMAIN instances => instances'[name] # instances[name]
          /\ raised => name \notin DOMAIN instances'
    ]_vars

\* a registered skill was reloaded: it has its second instance, another
\* skill still its first
C15_Witness ==
  /\ program = "skill_manager"
  /\ \E k \in DOMAIN reloads, m \in SkillDirs :
       /\ ~reloads[k].raised
       /\ reloads[k].name \notin load_failed
       /\ reloads[k].name \in DOMAIN instances
       /\ instances[reloads[k].name] = 2
       /\ m # reloads[k].name /\ m \in DOMAIN instances /\ instances[m] = 1

\* C16: a text with keywords of more than one skill of the quick-route
\* table is routed to the one of them declared first; a text with "통계"
\* (tonggye) and "보고서" (bogoseo) is routed to data_analytics.
C16_TableOrderTieBreak ==
  (V2 /\ pc \in {"skill", "multi", "done"}
      /\ Cardinality({s \in SkillDirs : Matches(s, user_input)}) >= 2) =>
    /\ routed_by = "quick"
    /\ \E k \in DOMAIN keywords_order :
         /\ skill_name = keywords_order[k]
         /\ Matches(keywords_order[k], user_input)
         /\ \A j \in 1..(k - 1) : ~Matches(keywords_order[j], user_input)
    /\ {"tonggye", "bogoseo"} \subseteq user_input => skill_name = "data_analytics"

\* the text with both keywords was handled by data_analytics
C16_Witness ==
  /\ pc = "done" /\ V2
  /\ {"tonggye", "bogoseo"} \subseteq user_input
  /\ Len(log) = 1 /\ log[1].skill = "data_analytics"

\* the task resolved for the text and the skill by a supervisor on which no
\* method has set an attribute yet
FirstResolution(text, skill) == self_determine_task(<<>>, text, skill).task

FailedResult(text) ==
  \/ text.kind = "skill_error"
  \/ text.kind = "json" /\ ~text.obj.success

\* C18: when the plan is empty, and when every step of the plan failed, the
\* answer of execute is a generic fixed message (the apology or the
\* no-result message), never the error text of a failed step.
C18_ApologyWhenNothingSucceeded ==
  (V2 /\ pc = "done" /\ MultiRun /\ StepsGiven
      /\ Len(results) = Len(steps)
      /\ \A k \in DOMAIN results : FailedResult(results[k].result)) =>
    outcome.val \in {APOLOGY, NO_RESULT}

\* C19: when the routing call of the generation collaborator fails, the
\* call is made a second time before the fallback plan is used.
C19_RetryOnce ==
  (pc \in {"skill", "v1_single", "done"} /\ routed_by = "llm" /\ llm_response.raises) =>
    llm_calls >= 2

\* "CAM-001에서 발생한 이벤트": no keyword of the routing tables occurs in it
CamEventRequest == {}

\* C20: the request "CAM-001에서 발생한 이벤트" is quick-routed to the query
\* skill, without a generation call for routing.
C20_CamEventQuickRouted ==
  (V2 /\ pc \in {"skill", "multi", "done"} /\ user_input = CamEventRequest) =>
    /\ routed_by = "quick"
    /\ skill_name = "query"
    /\ llm_calls = 0

\* the call of the skill instance carries the task the resolver gave for the
\* request and the skill of the step
TaskBesideContext(e, call) ==
  /\ call.skill = e.skill
  /\ call.task = e.task
  /\ call.task = _determine_task(user_input, e.skill)

\* C21 as stated: every context passed to a skill's task by the engine
\* holds the resolved task name and the request text.
C21_ContextNamesTask ==
  V2 => \A n \in DOMAIN log : \A c \in DOMAIN log[n].calls :
          LET call == log[n].calls[c]
          IN /\ "task" \in DOMAIN call.context
             /\ "query" \in DOMAIN call.context

\* C21 (amended): every context passed to a skill instance, by a single
\* skill run or by a step of a multi-step plan, holds the original request
\* text under query and the description of the step under task_description;
\* the resolved task name is not in the context, it is the task argument
\* passed beside it.
C21_ContextCarriesRequest ==
  V2 => \A n \in DOMAIN log : \A c \in DOMAIN log[n].calls :
          LET call == log[n].calls[c]
          IN /\ {"query", "task_description"} \subseteq DOMAIN call.context
             /\ call.context.query = user_input
             /\ call.context.task_description = log[n].description
             /\ call.context = log[n].context
             /\ "task" \notin DOMAIN call.context
             /\ TaskBesideContext(log[n], call)

\* a multi-step plan has ended whose second step ran its task with a context
\* carrying more than the two texts
C21_Witness ==
  /\ pc = "done" /\ V2 /\ MultiRun
  /\ \E n \in DOMAIN log :
       /\ n > 1 /\ Reached(log[n].calls)
       /\ "event_data" \in DOMAIN log[n].calls[Len(log[n].calls)].context

\* the generation collaborator answered with an object json.loads accepted
Parsed == routed_by = "llm" /\ llm_response.valid

\* the steps of the parsed answer are a list of objects
ParsedSteps ==
  LET planned == Get(llm_response.obj, "steps", JsonList(<<>>))
  IN planned.list /\ AllObjects(planned.items)

\* the run of a name the dispatcher does not know made no call and gave the
\* error text naming it
UnknownReported(e) ==
  /\ e.calls = <<>>
  /\ e.ret = (IF V2
              THEN Returned(skill_error_text(e.skill, SkillNotFound(e.skill)))
              ELSE Returned(unknown_agent_text(e.skill)))

\* the name is one the dispatcher knows
Dispatchable(name) == IF V2 THEN name \in skills ELSE name \in V1Agents

\* C22: a parsed plan naming a skill (agent) the dispatcher does not know
\* comes back from the router with that name as it was (SupervisorAgentV2
\* returns the parsed object itself), and the unknown name is found only
\* when the step is run: no call is made and the step's result is the error
\* text naming it.
C22_UnknownNameKept ==
  (program \in {"supervisor_v2", "supervisor_agent", "app"} /\ Parsed) =>
    /\ V2 => routing_plan = llm_response.obj
    /\ (~V2 /\ Get(llm_response.obj, "agent", "query") \notin V1Agents
            /\ (IsMultiStep(llm_response.obj) => ParsedSteps)) =>
          Get(routing_plan, "agent", "query") = Get(llm_response.obj, "agent", "query")
    /\ (~V2 /\ IsMultiStep(llm_response.obj) /\ ParsedSteps) =>
          LET given == Get(llm_response.obj, "steps", JsonList(<<>>)).items
              returned == Get(routing_plan, "steps", JsonList(<<>>)).items
          IN /\ DOMAIN returned = DOMAIN given
             /\ \A k \in DOMAIN given :
                  Get(given[k].fields, "agent", NONE) \notin V1Agents =>
                    returned[k] = given[k]
    /\ \A n \in DOMAIN log : ~Dispatchable(log[n].skill) => UnknownReported(log[n])

\* a step of a parsed multi-step plan named a skill no directory provides:
\* the plan came back as parsed and the step was run and reported
C22_Witness ==
  /\ pc = "done" /\ V2 /\ Parsed /\ MultiRun
  /\ routing_plan = llm_response.obj
  /\ \E n \in DOMAIN log :
       /\ log[n].skill = "web_intelligence"
       /\ Get(steps[n].fields, "skill", NONE) = "web_intelligence"
       /\ UnknownReported(log[n])

\* C23: whatever the text, the task the resolver gives for a skill of its
\* tables (by a keyword or by default) is a task that skill exposes and its
\* execute accepts.
C23_ResolvedTaskExposed ==
  V2 => \A n \in DOMAIN log :
          log[n].skill \in SkillDirs =>
            /\ log[n].task = _determine_task(user_input, log[n].skill)
            /\ log[n].task \in skill_tasks[log[n].skill]

\* C24: for a registered skill the context the engine builds for the task
\* it resolved holds the keys validate_input requires for that task, so the
\* run of a step the engine routed and resolved gets to the task (shown
\* here for the tasks the skill does expose).
C24_EngineContextValidates ==
  V2 => \A n \in DOMAIN log :
          (log[n].skill \in skills /\ log[n].task \in skill_tasks[log[n].skill]) =>
            /\ validate_input(log[n].skill, log[n].task, log[n].context)
            /\ Reached(log[n].calls)

\* C25: a text made of one keyword of the quick-route table alone is
\* quick-routed to every skill the keyword is declared for: no entry is
\* shadowed by the entry of an earlier skill.
C25_NoShadowedKeyword ==
  (V2 /\ pc \in {"skill", "multi", "done"}) =>
    \A s \in SkillDirs : \A kw \in Range(keywords_map[s]) :
      user_input = {kw} => (routed_by = "quick" /\ skill_name = s)

\* C26: a reload_skill of a registered name whose load raises leaves the
\* registry as it was: the name keeps its prior instance and every other
\* entry is untouched.
C26_FailedReloadKeepsRegistry ==
  [][(Len(reloads') = Len(reloads) + 1
        /\ reloads'[Len(reloads')].raised
        /\ reloads'[Len(reloads')].name \in DOMAIN instances) =>
       /\ instances' = instances
       /\ skills' = skills
    ]_vars

\* the supervisor was not asked anything for this request
SupervisorUntouched ==
  routed_by = "none" /\ llm_calls = 0 /\ log = <<>> /\ results = <<>>

\* a check of this request answered unsafe
ReportedUnsafe == \E k \in DOMAIN checks : ~checks[k].safe

\* the answer is one of the texts of the handler's except clauses
HandlerFailed ==
  /\ pc = "done" /\ ~outcome.raised
  /\ outcome.val.kind \in {"stop_iteration", "handler_error"}

\* C27: in process_query the security check is over before the supervisor
\* is asked anything; the rule check runs first, the model is asked only
\* when no rule blocked; for a request a check reported unsafe the
\* supervisor's execute is never invoked and the answer is the block
\* message with the reason of the check that blocked. (A request with no
\* check at all, or with safe checks and no supervisor, is one whose agent
\* could not be built: it is answered from the except clauses.)
C27_SecurityBeforeSupervisor ==
  (program = "app" /\ called = "process_query") =>
    /\ pc = "security" => (checks = <<>> /\ SupervisorUntouched)
    /\ checks # <<>> =>
         /\ Len(checks) \in {1, 2}
         /\ checks[1].check = "rules"
         /\ checks[1].safe = _check_rules(user_input).safe
         /\ Len(checks) = 2 <=> checks[1].safe
         /\ Len(checks) = 2 => checks[2].check = "llm"
    /\ (pc # "security" /\ checks = <<>>) => (HandlerFailed /\ SupervisorUntouched)
    /\ ReportedUnsafe =>
         /\ pc = "done"
         /\ SupervisorUntouched
         /\ outcome = Returned(blocked_text(checks[Len(checks)].reason))
    /\ (~SupervisorUntouched \/ pc \in {"v1_route", "v1_single", "v1_multi"}) =>
         /\ Len(checks) = 2 /\ ~ReportedUnsafe
         /\ "supervisor" \in singletons
    /\ (pc = "done" /\ ~ReportedUnsafe /\ ~HandlerFailed) => routed_by = "llm"

\* a text with a forbidden keyword was blocked by the rule check alone
C27_Witness ==
  /\ program = "app" /\ called = "process_query" /\ pc = "done"
  /\ Contains("jailbreak", user_input)
  /\ Len(checks) = 1 /\ ~checks[1].safe
  /\ outcome.val.kind = "blocked"

\* the operations of app.py answering a request
Handlers == {"process_query", "process_multimodal_query"}

\* the text is empty or only whitespace
Blank(t) == t.kind \in {"empty", "blank"}

\* what the supervisor (or the multimodal agent run directly) returned was
\* the text of its only agent run
\* (the one step of a multi-step plan returning None, the supervisor
\* returns the text of the TypeError that slicing None raised)
SingleRunReturned ==
  /\ Len(log) = 1
  /\ (routed_by = "none" \/ ~IsMultiStep(routing_plan)
        \/ (Len(steps) = 1 /\ Len(results) = 1 /\ log[1].ret # Returned(NoneValue)))

\* C28: the text a handler of app.py answers with is never None, empty nor
\* only whitespace; when the supervisor returned None, an empty string or
\* only whitespace the answer is the fixed apology.
C28_NeverBlankAnswer ==
  (program = "app" /\ called \in Handlers /\ pc = "done") =>
    /\ ~outcome.raised
    /\ IsText(outcome.val)
    /\ ~Blank(outcome.val)
    /\ (SingleRunReturned /\ ~log[1].ret.raised
          /\ (log[1].ret.val = NoneValue \/ Blank(log[1].ret.val)))
        => outcome = Returned(APOLOGY)

\* the only agent run for a query returned None, the supervisor returned
\* that None and the handler answered with the apology
C28_Witness ==
  /\ program = "app" /\ called = "process_query" /\ pc = "done"
  /\ SingleRunReturned
  /\ log[1].ret = Returned(NoneValue)
  /\ outcome = Returned(APOLOGY)

\* the only agent run for a query returned the empty string and the handler
\* answered with the apology
C28_EmptyWitness ==
  /\ program = "app" /\ called = "process_query" /\ pc = "done"
  /\ SingleRunReturned
  /\ log[1].ret.val = EMPTY
  /\ outcome = Returned(APOLOGY)

\* the multimodal agent, run directly with the images of the request,
\* returned None and the handler answered with the apology
C28_MultimodalNoneWitness ==
  /\ program = "app" /\ called = "process_multimodal_query" /\ pc = "done"
  /\ routed_by = "none" /\ Len(log) = 1
  /\ log[1].skill = "multimodal" /\ log[1].ret = Returned(NoneValue)
  /\ outcome = Returned(APOLOGY)

\* the multimodal agent, run directly with the images of the request,
\* returned only whitespace and the handler answered with the apology
C28_MultimodalWitness ==
  /\ program = "app" /\ called = "process_multimodal_query" /\ pc = "done"
  /\ routed_by = "none" /\ Len(log) = 1
  /\ log[1].skill = "multimodal" /\ log[1].ret.val = BLANK
  /\ outcome = Returned(APOLOGY)

\* the text is the error text of a step that failed
ErrorText(t) == t.kind \in {"skill_error", "agent_error", "unknown_agent"}

\* C29: in a multi-step plan of either supervisor the previous result put
\* in the description of step k+1 is the text step k returned, also when
\* step k failed (unknown skill or agent, validation failure, error while
\* running): the error text is what the next step gets, and the text of an
\* earlier step that succeeded is not carried past the failed one.
C29_ThreadsReturnedText ==
  (program \in {"supervisor_v2", "supervisor_agent", "app"} /\ MultiRun
      /\ pc \in {"multi", "v1_multi", "done"}) =>
    /\ Len(results) >= 1 => context = results[Len(results)].result
    /\ \A k \in DOMAIN log :
         (k > 1 /\ k - 1 \in DOMAIN results) =>
           /\ log[k - 1].ret = Returned(results[k - 1].result)
           /\ log[k].description.previous = results[k - 1].result
           /\ ErrorText(results[k - 1].result) =>
                log[k].description.previous = log[k - 1].ret.val
           /\ V2 => \A c \in DOMAIN log[k].calls :
                       log[k].calls[c].context.task_description
                         = log[k].description

\* three steps: the first ran its task, the second named a skill that is
\* not registered, the third got the error text of the second and not the
\* text of the first
C29_Witness ==
  /\ pc = "done" /\ V2 /\ MultiRun /\ Len(log) = 3
  /\ Reached(log[1].calls) /\ ~ErrorText(log[1].ret.val)
  /\ log[2].ret = Returned(skill_error_text(log[2].skill, SkillNotFound(log[2].skill)))
  /\ log[3].description.previous = log[2].ret.val
  /\ log[3].description.previous # log[1].ret.val

\* the steps of a plan (none when it has no list of steps)
StepsOf(plan) ==
  LET planned == Get(plan, "steps", JsonList(<<>>))
  IN IF planned.list THEN planned.items ELSE <<>>

\* step k of the plan is an object naming the agent
StepNames(plan, k, agent) ==
  /\ k \in DOMAIN StepsOf(plan)
  /\ StepsOf(plan)[k].object
  /\ Get(StepsOf(plan)[k].fields, "agent", NONE) = agent

\* C30: the plan SupervisorAgent.route returns for a parsed answer does not
\* name "search" as its agent nor, when it is a multi-step plan, in any of
\* its steps: a single-step "search" and every multi-step step naming
\* "search" come back as "report", and no run started by execute is a run
\* of the search agent.
C30_SearchNeverRun ==
  (program \in {"supervisor_agent", "app"} /\ routed_by = "llm") =>
    /\ Get(routing_plan, "agent", "query") # "search"
    /\ IsMultiStep(routing_plan) =>
         \A k \in DOMAIN StepsOf(routing_plan) : ~StepNames(routing_plan, k, "search")
    /\ (Parsed /\ Get(llm_response.obj, "agent", NONE) = "search"
           /\ (IsMultiStep(llm_response.obj) => ParsedSteps)) =>
         routing_plan.agent = "report"
    /\ (Parsed /\ IsMultiStep(llm_response.obj) /\ ParsedSteps) =>
         \A k \in DOMAIN StepsOf(llm_response.obj) :
           StepNames(llm_response.obj, k, "search") => StepNames(routing_plan, k, "report")
    /\ skill_name # "search"
    /\ \A n \in DOMAIN log :
         /\ log[n].skill # "search"
         /\ \A c \in DOMAIN log[n].calls : log[n].calls[c].op # "search"

\* a step of a parsed multi-step plan named "search": the report agent was
\* run in its place
C30_Witness ==
  /\ program = "app" /\ pc = "done" /\ Parsed /\ MultiRun
  /\ \E k \in DOMAIN log :
       /\ StepNames(llm_response.obj, k, "search")
       /\ log[k].skill = "report"
       /\ Len(log[k].calls) = 1 /\ log[k].calls[1].op = "report"

\* the supervisor could not be built, its constructor raising an exception
\* whose message names StopIteration: the handler answered with the fixed
\* text in place of the message
C28_ExceptWitness ==
  /\ program = "app" /\ called = "process_query" /\ pc = "done"
  /\ Len(checks) = 2 /\ ~ReportedUnsafe /\ SupervisorUntouched
  /\ outcome.val = [kind |-> "handler_error", error |-> STOP_ITERATION_TEXT]

====
